---------------------------- MODULE Spec2Model ----------------------------
(***************************************************************************)
(* A model of the chunked loader of src/extensions/chunkloader.js          *)
(* (VbufChunkLoader): the gzip codec of a chunk, the chunk store, the      *)
(* three-buffer window with its asynchronous reload, the append loop and   *)
(* the activate / deactivate / clear lifecycle.                            *)
(*                                                                         *)
(* A string is a sequence of UTF-16 code units (numbers); a line is a      *)
(* string; a chunk's text is the lines joined by the newline code unit.    *)
(* Every `await` of the source is a suspension point: the synchronous      *)
(* code between two awaits is one atomic step of the model.                *)
(*                                                                         *)
(* The hosting viewer (Viewport, Model, render) is no part of the source.  *)
(* What the loader reads of it, Viewport.end, and what it calls of it,     *)
(* render, are inputs of the model, drawn from what a viewer can do.       *)
(***************************************************************************)
EXTENDS Integers, Sequences, FiniteSets, TLC

VARIABLES
  enabled,            \* let enabled            (line 30)
  chunks,             \* let chunks             (line 31): compressed chunks
  chunkSize,          \* let chunkSize          (line 32)
  totalLines,         \* let totalLines         (line 33)
  buffer,             \* let buffer             (line 34): current chunk, decompressed
  currentChunkIndex,  \* let currentChunkIndex  (line 35)
  prevBuffer,         \* let prevBuffer         (line 36)
  nextBuffer,         \* let nextBuffer         (line 37)
  host,               \* the hosting viewer: editMode, the three overridable members, Model.lines
  vpSize,             \* Viewport.size of the hosting viewer
  reloads,            \* the loadChunks() calls in flight, each suspended at an await
  app,                \* the appendChunkedLines() call in flight, suspended at an await
  doc,                \* history: the lines handed to appendLines since the last reset
  clean,              \* history: no append was in flight when the last reset ran
  resets,             \* history: the number of resets (activate, deactivate, clear) so far
  race,               \* history: the target of a miss issued while another reload was in flight
  ev,                 \* history: the last operation, its argument, error and return value
  codecPc,            \* codec harness: position
  codecIn,            \* codec harness: the lines given to compressChunk
  codecStored,        \* codec harness: the compressed chunk
  codecOut            \* codec harness: the lines decompressChunk returned

vars == << enabled, chunks, chunkSize, totalLines, buffer, currentChunkIndex,
           prevBuffer, nextBuffer, host, vpSize, reloads, app, doc, clean, resets, race, ev,
           codecPc, codecIn, codecStored, codecOut >>

sessionVars == << enabled, chunks, chunkSize, totalLines, buffer, currentChunkIndex,
                  prevBuffer, nextBuffer, host >>

codecVars == << codecPc, codecIn, codecStored, codecOut >>

---------------------------------------------------------------------------
(* Bounds of the model. *)

MaxViewport == 2       \* Viewport.size is 1..MaxViewport
MaxAppend == 4         \* the longest input of one appendLines call
MaxLines == 5          \* the most lines appended in one session
MaxReloads == 2        \* the most loadChunks() calls in flight
MaxResets == 1         \* the most resets in a behaviour of Spec
LifeMaxAppend == 2     \* the same bounds for SpecLife, which runs several sessions
LifeMaxLines == 2
LifeMaxReloads == 1
LifeMaxResets == 3
ShortMaxLines == 3     \* the most lines appended in SpecLive, SpecFault and SpecWide
MaxLead == 0           \* the most byte order marks that lead an appended line
WideMaxLead == 2       \* the same bound for SpecWide
MaxCodecLines == 2     \* the longest line sequence given to the codec
MaxCodecStrLen == 2    \* the longest string in it

(* Program constants. *)

DefaultChunkSize == 50000
NoChunk == -1

---------------------------------------------------------------------------
(* Code units and strings. *)

NL == 10
BOM == 65279
ReplacementChar == 65533

EmptyString == << >>
Placeholder == << 46, 46, 46 >>

Min(a, b) == IF a < b THEN a ELSE b
Max(a, b) == IF a > b THEN a ELSE b

IsHigh(u) == u >= 55296 /\ u <= 56319
IsLow(u) == u >= 56320 /\ u <= 57343

(* Array.prototype.slice(from, to) on a sequence, with JavaScript's treatment
   of negative and out-of-range indices. *)
JsIndex(k, n) == IF k < 0 THEN Max(n + k, 0) ELSE Min(k, n)
JsSlice(s, from, to) ==
  LET a == JsIndex(from, Len(s))
      b == JsIndex(to, Len(s))
  IN  IF a < b THEN SubSeq(s, a + 1, b) ELSE << >>
JsSliceFrom(s, from) == JsSlice(s, from, Len(s))

(* arr[i] || '' : an index outside the array reads undefined, which is falsy. *)
LineOr(arr, i) == IF i >= 0 /\ i < Len(arr) THEN arr[i + 1] ELSE EmptyString

---------------------------------------------------------------------------
(* The codec: lines.join('\n'), TextEncoder, gzip; gunzip, TextDecoder,
   text.split('\n'). *)

RECURSIVE Join(_)
Join(lines) ==
  IF lines = << >> THEN << >>
  ELSE IF Len(lines) = 1 THEN lines[1]
  ELSE lines[1] \o << NL >> \o Join(Tail(lines))

RECURSIVE SplitAcc(_, _)
SplitAcc(text, cur) ==
  IF text = << >> THEN << cur >>
  ELSE IF text[1] = NL THEN << cur >> \o SplitAcc(Tail(text), << >>)
  ELSE SplitAcc(Tail(text), Append(cur, text[1]))

Split(text) == SplitAcc(text, << >>)

(* UTF-8 of one scalar value. *)
Utf8(cp) ==
  IF cp < 128 THEN << cp >>
  ELSE IF cp < 2048 THEN << 192 + (cp \div 64), 128 + (cp % 64) >>
  ELSE IF cp < 65536
    THEN << 224 + (cp \div 4096), 128 + ((cp \div 64) % 64), 128 + (cp % 64) >>
  ELSE << 240 + (cp \div 262144), 128 + ((cp \div 4096) % 64),
          128 + ((cp \div 64) % 64), 128 + (cp % 64) >>

(* TextEncoder.encode: a surrogate pair is one scalar value, a lone surrogate
   is replaced by U+FFFD. *)
RECURSIVE TextEncode(_)
TextEncode(text) ==
  IF text = << >> THEN << >>
  ELSE IF IsHigh(text[1]) /\ Len(text) >= 2 /\ IsLow(text[2])
    THEN Utf8(65536 + (text[1] - 55296) * 1024 + (text[2] - 56320))
           \o TextEncode(SubSeq(text, 3, Len(text)))
  ELSE IF IsHigh(text[1]) \/ IsLow(text[1])
    THEN Utf8(ReplacementChar) \o TextEncode(Tail(text))
  ELSE Utf8(text[1]) \o TextEncode(Tail(text))

IsCont(b, i) == i <= Len(b) /\ b[i] >= 128 /\ b[i] < 192

RECURSIVE Utf8Decode(_)
Utf8Decode(b) ==
  IF b = << >> THEN << >>
  ELSE IF b[1] < 128 THEN << b[1] >> \o Utf8Decode(Tail(b))
  ELSE IF b[1] >= 194 /\ b[1] < 224 /\ IsCont(b, 2)
    THEN << (b[1] - 192) * 64 + (b[2] - 128) >> \o Utf8Decode(SubSeq(b, 3, Len(b)))
  ELSE IF b[1] >= 224 /\ b[1] < 240 /\ IsCont(b, 2) /\ IsCont(b, 3)
    THEN << (b[1] - 224) * 4096 + (b[2] - 128) * 64 + (b[3] - 128) >>
           \o Utf8Decode(SubSeq(b, 4, Len(b)))
  ELSE IF b[1] >= 240 /\ b[1] < 245 /\ IsCont(b, 2) /\ IsCont(b, 3) /\ IsCont(b, 4)
    THEN LET cp == (b[1] - 240) * 262144 + (b[2] - 128) * 4096
                     + (b[3] - 128) * 64 + (b[4] - 128)
         IN  << 55296 + ((cp - 65536) \div 1024), 56320 + ((cp - 65536) % 1024) >>
               \o Utf8Decode(SubSeq(b, 5, Len(b)))
  ELSE << ReplacementChar >> \o Utf8Decode(Tail(b))

(* TextDecoder.decode with the default ignoreBOM = false: a leading byte
   order mark is dropped. *)
TextDecode(b) ==
  LET t == Utf8Decode(b)
  IN  IF t # << >> /\ t[1] = BOM THEN Tail(t) ELSE t

(* CompressionStream('gzip') / DecompressionStream('gzip'): a compressed
   chunk is modelled by the bytes it decompresses to. A value that is not a
   byte buffer (undefined) is no input the decompression stream accepts. *)
Gzip(bytes) == [fmt |-> "gzip", data |-> bytes]
Undefined == [fmt |-> "undefined", data |-> << >>]
IsGzip(c) == c.fmt = "gzip"
Gunzip(c) == c.data

(* compressChunk, lines 46-71: the byte buffer it stores. *)
CompressLines(lines) == Gzip(TextEncode(Join(lines)))

(* chunks[chunkIndex], line 85: undefined outside the array. *)
ChunkAt(cs, i) == IF i >= 0 /\ i < Len(cs) THEN cs[i + 1] ELSE Undefined

(* decompressChunk, lines 86-112, of the value read at line 85: the lines, or
   the rejection of the read when the value is not a byte buffer. *)
DecompressOk(c) == IsGzip(c)
DecompressLines(c) == Split(TextDecode(Gunzip(c)))

(* compressChunk, lines 73-77: the store write. *)
StoreWrite(cs, i, c) ==
  IF i < Len(cs) THEN [cs EXCEPT ![i + 1] = c] ELSE Append(cs, c)

(* compressChunk, lines 73-77: the index the write lands at, which is the
   end of the store for every chunkIndex beyond it. *)
StoreIndex(cs, i) == IF i < Len(cs) THEN i ELSE Len(cs)

(* chunk.length of a stored chunk, lines 59-66 and 257: the number of bytes
   of the gzip stream the runtime wrote for the chunk text. Which bytes, and
   how many, is the runtime's (its compression library and its settings);
   the source never looks at them. What every gzip stream has is the
   10-byte header, a deflate stream of one block at least, whose shortest
   form (the empty block in the fixed code) takes 2 bytes, and the 8-byte
   trailer of CRC-32 and length. *)
GzipHeaderLen == 10
MinDeflateLen == 2
GzipTrailerLen == 8
MinGzipLength == GzipHeaderLen + MinDeflateLen + GzipTrailerLen

(* Whether n can be the length of the stored chunk c. *)
IsChunkLength(c, n) == IsGzip(c) /\ n >= MinGzipLength

(* get compressedSize, lines 256-258: whether the getter can return n for
   the store cs, the sum from 0 of the length of every chunk. *)
RECURSIVE IsCompressedSize(_, _)
IsCompressedSize(cs, n) ==
  IF cs = << >> THEN n = 0
  ELSE \E m \in MinGzipLength..n :
         IsChunkLength(Head(cs), m) /\ IsCompressedSize(Tail(cs), n - m)

---------------------------------------------------------------------------
(* The hosting viewer. *)

(* Viewport.end, read at line 156: the last line index of the viewport, a
   getter of the hosting viewer. A viewer ends the viewport at
   start + size - 1 ("size"), or at the last line where the document ends
   before that ("last"): at Model.lastIndex, which activate overrides to
   totalLines - 1 (lines 285-288). *)
ViewerKinds == {"size", "last"}

ViewportEnd(start, viewer) ==
  IF viewer = "last" THEN Min(start + vpSize - 1, totalLines - 1) ELSE start + vpSize - 1

ViewportEnds(start) == {ViewportEnd(start, viewer) : viewer \in ViewerKinds}

HostOriginal ==
  [editMode |-> "write", lastIndex |-> "original", lines |-> "original",
   appendLines |-> "original", modelLines |-> "initial"]

(* activate, lines 279-297. *)
HostChunked ==
  [editMode |-> "navigate", lastIndex |-> "chunked", lines |-> "chunked",
   appendLines |-> "chunked", modelLines |-> "empty"]

(* A variant of deactivate that leaves the viewer in navigate mode. *)
HostRestoredKeepsMode(h) ==
  [h EXCEPT !.lastIndex = "original", !.lines = "original", !.appendLines = "original"]

(* deactivate, lines 309-323: Model.lines is not restored. *)
HostRestored(h) ==
  [h EXCEPT !.editMode = "write", !.lastIndex = "original", !.lines = "original",
            !.appendLines = "original"]

(* The record of an operation: its name, the error it raised ("" for none),
   whether it was a cache hit, whether it called render(), the length of
   the array it returned, whether Viewport.end was short of
   start + size - 1 when it read it, the store index it wrote (NoChunk for
   none) and whether that write grew the store. *)
Event(op, err) ==
  [op |-> op, err |-> err, hit |-> FALSE, render |-> FALSE, n |-> 0, short |-> FALSE,
   at |-> NoChunk, grew |-> FALSE]

(* The append call in flight: its position (idle; "dec" and "comp", at the
   await of decompressChunk and of compressChunk; "stored", after the store
   write of compressChunk and before the caller resumes), the chunk index
   of the pass, the lines placed in it, the lines left, the chunk read and
   the chunk being compressed; t0 is history, startChunkIndex as line 178
   computed it. *)
IdleApp ==
  [pc |-> "idle", idx |-> 0, placed |-> << >>, rest |-> << >>, last |-> TRUE,
   snap |-> Undefined, payload |-> Undefined, t0 |-> 0]

(* The k-th line handed to appendLines in a session: the letter 'a', 'b',
   'c', ..., led by the given number of byte order marks (U+FEFF). *)
LineOf(k, marks) == [j \in 1..marks |-> BOM] \o << 96 + k >>
NewLines(n, marks) == [j \in 1..n |-> LineOf(Len(doc) + j, marks)]

RemoveAt(s, k) == SubSeq(s, 1, k - 1) \o SubSeq(s, k + 1, Len(s))

---------------------------------------------------------------------------
(* Initial state: lines 30-37, before the first activate. *)

LoaderInit ==
  /\ enabled = FALSE
  /\ chunks = << >>
  /\ chunkSize = DefaultChunkSize
  /\ totalLines = 0
  /\ buffer = << >>
  /\ currentChunkIndex = NoChunk
  /\ prevBuffer = << >>
  /\ nextBuffer = << >>
  /\ host = HostOriginal
  /\ vpSize \in 1..MaxViewport
  /\ reloads = << >>
  /\ app = IdleApp
  /\ doc = << >>
  /\ clean = TRUE
  /\ resets = 0
  /\ race = NoChunk
  /\ ev = Event("init", "")

Init ==
  /\ LoaderInit
  /\ codecPc = "off"
  /\ codecIn = << >>
  /\ codecStored = Undefined
  /\ codecOut = << >>

---------------------------------------------------------------------------
(* The window: getChunkedLines and the reload it schedules. *)

(* getChunkedLines, line 120. *)
StartChunkIndex(start) == start \div chunkSize

(* A variant of the test that takes every call for a miss. *)
IsMissAlways(start) == TRUE

(* A variant of the test that also takes a call for a miss while a reload is
   pending. *)
IsMissWhileLoading(start) ==
  currentChunkIndex # StartChunkIndex(start) \/ reloads # << >>

(* getChunkedLines, line 123: the cache-miss test. *)
IsMiss(start) == currentChunkIndex # StartChunkIndex(start)

(* getChunkedLines, lines 157-168: the string for absolute line i. *)
HitLine(i, sci) ==
  LET chunkIdx == i \div chunkSize
      lineInChunk == i % chunkSize
  IN  IF chunkIdx = sci - 1 /\ Len(prevBuffer) > 0 THEN LineOr(prevBuffer, lineInChunk)
      ELSE IF chunkIdx = sci THEN LineOr(buffer, lineInChunk)
      ELSE IF chunkIdx = sci + 1 /\ Len(nextBuffer) > 0 THEN LineOr(nextBuffer, lineInChunk)
      ELSE EmptyString

(* A variant of the loop that stops one line short of Viewport.end. *)
HitLinesExclusiveEnd(start, end) ==
  [k \in 1..(end - start) |-> HitLine(start + k - 1, StartChunkIndex(start))]

(* getChunkedLines, lines 155-170: the cache-hit result, one string for
   every i of Viewport.start..Viewport.end. *)
HitLines(start, end) ==
  [k \in 1..(end - start + 1) |-> HitLine(start + k - 1, StartChunkIndex(start))]

(* getChunkedLines, line 151: the cache-miss result. *)
MissLines == [k \in 1..vpSize |-> Placeholder]

(* getChunkedLines, lines 119-171: what a call with Viewport.start = start
   and Viewport.end = end returns in the current state. *)
Resolved(start, end) == IF IsMiss(start) THEN MissLines ELSE HitLines(start, end)

(* decompressChunk, lines 86-98, of the value read at line 85: whether the
   promise it returns can settle at all. Of a stored chunk it resolves. Of
   undefined the outcome is the runtime's: the read of line 98 rejects with
   a TypeError where the decompression stream refuses the value, as the
   Compression Streams standard has it, and stays pending for ever on
   Node 20, where nothing is left to settle it. *)
Settles(c) == IF DecompressOk(c) THEN {TRUE} ELSE {TRUE, FALSE}

(* loadChunks, lines 125-131, up to its first await: the chunk index is set
   and chunks[startChunkIndex] is read from the store cs. *)
NewReload(cs, sci, settles) ==
  [target |-> sci, pc |-> "cur", snap |-> ChunkAt(cs, sci), settles |-> settles]

(* getChunkedLines, lines 119-171, with Viewport.start = start and
   Viewport.end = end, which a hit reads. *)
Resolve(start, end) ==
  /\ host.lines = "chunked"
  /\ IF IsMiss(start)
     THEN /\ currentChunkIndex' = StartChunkIndex(start)
          /\ \E settles \in Settles(ChunkAt(chunks, StartChunkIndex(start))) :
               reloads' = Append(reloads, NewReload(chunks, StartChunkIndex(start), settles))
          /\ race' = IF Len(reloads) = 1 /\ reloads[1].target # StartChunkIndex(start)
                     THEN StartChunkIndex(start) ELSE NoChunk
          /\ ev' = [Event("resolve", "") EXCEPT !.n = Len(MissLines)]
     ELSE /\ ev' = [Event("resolve", "") EXCEPT !.hit = TRUE,
                                               !.n = Len(HitLines(start, end)),
                                               !.short = end < start + vpSize - 1]
          /\ UNCHANGED << currentChunkIndex, reloads, race >>
  /\ UNCHANGED << enabled, chunks, chunkSize, totalLines, buffer, prevBuffer, nextBuffer,
                  host, vpSize, app, doc, clean, resets, codecVars >>

(* loadChunks, lines 140-147, after the previous buffer is settled with pb. *)
LoadNext(t, pb) ==
  IF t.target + 1 < Len(chunks)
  THEN [done |-> FALSE, prev |-> pb, next |-> nextBuffer,
        task |-> [t EXCEPT !.pc = "next", !.snap = ChunkAt(chunks, t.target + 1)]]
  ELSE [done |-> TRUE, prev |-> pb, next |-> << >>, task |-> t]

(* A variant of the test of line 134 that never loads chunk 0 as the
   previous chunk. *)
LoadPrevSkipsFirst(t) ==
  IF t.target - 1 > 0 /\ t.target - 1 < Len(chunks)
  THEN [done |-> FALSE, prev |-> prevBuffer, next |-> nextBuffer,
        task |-> [t EXCEPT !.pc = "prev", !.snap = ChunkAt(chunks, t.target - 1)]]
  ELSE LoadNext(t, << >>)

(* loadChunks, lines 133-147, after the current buffer is assigned. *)
LoadPrev(t) ==
  IF t.target - 1 >= 0 /\ t.target - 1 < Len(chunks)
  THEN [done |-> FALSE, prev |-> prevBuffer, next |-> nextBuffer,
        task |-> [t EXCEPT !.pc = "prev", !.snap = ChunkAt(chunks, t.target - 1)]]
  ELSE LoadNext(t, << >>)

ReloadAdvance(k, r) ==
  /\ prevBuffer' = r.prev
  /\ nextBuffer' = r.next
  /\ reloads' = IF r.done THEN RemoveAt(reloads, k) ELSE [reloads EXCEPT ![k] = r.task]
  /\ ev' = [Event("reload", "") EXCEPT !.render = r.done]

(* loadChunks, line 131 on: decompressChunk(startChunkIndex) settles. A read
   of a chunk that is not stored rejects, and loadChunks ends there; where
   it never settles, loadChunks stays suspended at line 131 and takes no
   step. *)
ReloadCurrent(k) ==
  /\ k \in 1..Len(reloads)
  /\ reloads[k].pc = "cur"
  /\ reloads[k].settles
  /\ IF DecompressOk(reloads[k].snap)
     THEN /\ buffer' = DecompressLines(reloads[k].snap)
          /\ ReloadAdvance(k, LoadPrev(reloads[k]))
     ELSE /\ reloads' = RemoveAt(reloads, k)
          /\ ev' = Event("reload", "TypeError")
          /\ UNCHANGED << buffer, prevBuffer, nextBuffer >>
  /\ UNCHANGED << enabled, chunks, chunkSize, totalLines, currentChunkIndex, host, vpSize,
                  app, doc, clean, resets, race, codecVars >>

(* loadChunks, line 135 on: decompressChunk(prevChunkIndex) settles. *)
ReloadPrevious(k) ==
  /\ k \in 1..Len(reloads)
  /\ reloads[k].pc = "prev"
  /\ ReloadAdvance(k, LoadNext(reloads[k], DecompressLines(reloads[k].snap)))
  /\ UNCHANGED << enabled, chunks, chunkSize, totalLines, buffer, currentChunkIndex, host,
                  vpSize, app, doc, clean, resets, race, codecVars >>

(* loadChunks, lines 142-147: decompressChunk(nextChunkIndex) settles. *)
ReloadNext(k) ==
  /\ k \in 1..Len(reloads)
  /\ reloads[k].pc = "next"
  /\ nextBuffer' = DecompressLines(reloads[k].snap)
  /\ reloads' = RemoveAt(reloads, k)
  /\ ev' = [Event("reload", "") EXCEPT !.render = TRUE]
  /\ UNCHANGED << enabled, chunks, chunkSize, totalLines, buffer, currentChunkIndex,
                  prevBuffer, host, vpSize, app, doc, clean, resets, race, codecVars >>

---------------------------------------------------------------------------
(* Lifecycle: activate, deactivate, clear. *)

(* A variant of the guard that lets a chunk size equal to the viewport size
   through. *)
ActivateRejectsOffByOne(size) == vpSize > size

(* activate, line 267: the configuration guard. *)
ActivateRejects(size) == vpSize >= size

(* render(true) at the end of activate and of clear, lines 299 and 359,
   with the chunked line source installed: the viewer repaints, and a
   repaint reads Viewport.lines, which is getChunkedLines. Whether the
   viewer repaints before render returns (now) or in a later job is the
   viewer's. In the state the reset has left no chunk is loaded, so the
   call is a miss for every Viewport.start: lines 123-131 set the chunk
   index and read the chunk of the empty store. With the original line
   source installed a repaint reads nothing of the loader. *)
RepaintAfterReset(now, start, size) ==
  IF now
  THEN /\ currentChunkIndex' = start \div size
       /\ \E settles \in Settles(ChunkAt(<< >>, start \div size)) :
            reloads' = Append(reloads, NewReload(<< >>, start \div size, settles))
  ELSE /\ currentChunkIndex' = NoChunk
       /\ UNCHANGED reloads

(* activate, lines 266-300, in a viewer that has Viewport.start = start
   and repaints as now says. *)
Activate(size, now, start) ==
  IF ActivateRejects(size)
  THEN /\ ev' = Event("activate", "config")
       /\ UNCHANGED << sessionVars, vpSize, reloads, app, doc, clean, resets, race, codecVars >>
  ELSE /\ enabled' = TRUE
       /\ chunkSize' = size
       /\ chunks' = << >>
       /\ buffer' = << >>
       /\ totalLines' = 0
       /\ prevBuffer' = << >>
       /\ nextBuffer' = << >>
       /\ host' = HostChunked
       /\ RepaintAfterReset(now, start, size)
       /\ doc' = << >>
       /\ clean' = (app.pc = "idle")
       /\ resets' = resets + 1
       /\ race' = NoChunk
       /\ ev' = [Event("activate", "") EXCEPT !.render = TRUE]
       /\ UNCHANGED << vpSize, app, codecVars >>

(* deactivate, lines 305-334. The getters are restored (lines 311-323)
   before render(true) of line 333: the repaint reads the viewer's own
   lines. *)
Deactivate ==
  /\ enabled' = FALSE
  /\ host' = HostRestored(host)
  /\ chunks' = << >>
  /\ buffer' = << >>
  /\ totalLines' = 0
  /\ currentChunkIndex' = NoChunk
  /\ prevBuffer' = << >>
  /\ nextBuffer' = << >>
  /\ doc' = << >>
  /\ clean' = (app.pc = "idle")
  /\ resets' = resets + 1
  /\ race' = NoChunk
  /\ ev' = [Event("deactivate", "") EXCEPT !.render = TRUE]
  /\ UNCHANGED << chunkSize, vpSize, reloads, app, codecVars >>

(* clear, lines 352-360, in a viewer that has Viewport.start = start and
   repaints as now says. *)
Clear(now, start) ==
  /\ chunks' = << >>
  /\ buffer' = << >>
  /\ totalLines' = 0
  /\ prevBuffer' = << >>
  /\ nextBuffer' = << >>
  /\ RepaintAfterReset(now /\ host.lines = "chunked", start, chunkSize)
  /\ doc' = << >>
  /\ clean' = (app.pc = "idle")
  /\ resets' = resets + 1
  /\ race' = NoChunk
  /\ ev' = [Event("clear", "") EXCEPT !.render = TRUE]
  /\ UNCHANGED << enabled, chunkSize, host, vpSize, app, codecVars >>

---------------------------------------------------------------------------
(* Ingestion: appendLines and appendChunkedLines. *)

(* A variant of the loop pass that advances totalLines by all remaining lines
   instead of the lines placed in this chunk. *)
LoopPassCountsAll(idx, pos, rem, cs, total) ==
  IF Len(rem) = 0
  THEN [done |-> TRUE, total |-> total, app |-> IdleApp]
  ELSE LET space == chunkSize - pos
           last == Len(rem) <= space
           placed == IF last THEN rem ELSE JsSlice(rem, 0, space)
           rest == IF last THEN << >> ELSE JsSliceFrom(rem, space)
           a == [pc |-> "dec", idx |-> idx, placed |-> placed, rest |-> rest,
                 last |-> last, snap |-> Undefined, payload |-> Undefined, t0 |-> 0]
       IN  IF idx < Len(cs)
           THEN [done |-> FALSE, total |-> total,
                 app |-> [a EXCEPT !.snap = ChunkAt(cs, idx)]]
           ELSE [done |-> FALSE, total |-> total + Len(rem),
                 app |-> [a EXCEPT !.pc = "comp", !.payload = CompressLines(placed)]]

(* A variant of the loop pass that keeps one slot of every chunk free. *)
LoopPassKeepsSlot(idx, pos, rem, cs, total) ==
  IF Len(rem) = 0
  THEN [done |-> TRUE, total |-> total, app |-> IdleApp]
  ELSE LET space == chunkSize - pos - 1
           last == Len(rem) <= space
           placed == IF last THEN rem ELSE JsSlice(rem, 0, space)
           rest == IF last THEN << >> ELSE JsSliceFrom(rem, space)
           a == [pc |-> "dec", idx |-> idx, placed |-> placed, rest |-> rest,
                 last |-> last, snap |-> Undefined, payload |-> Undefined, t0 |-> 0]
       IN  IF idx < Len(cs)
           THEN [done |-> FALSE, total |-> total,
                 app |-> [a EXCEPT !.snap = ChunkAt(cs, idx)]]
           ELSE [done |-> FALSE, total |-> total + Len(placed),
                 app |-> [a EXCEPT !.pc = "comp", !.payload = CompressLines(placed)]]

(* appendChunkedLines, lines 194-222: one pass of the loop from its head to
   the next await, or the end of the loop (lines 224-226). *)
LoopPass(idx, pos, rem, cs, total) ==
  IF Len(rem) = 0
  THEN [done |-> TRUE, total |-> total, app |-> IdleApp]
  ELSE LET space == chunkSize - pos
           last == Len(rem) <= space
           placed == IF last THEN rem ELSE JsSlice(rem, 0, space)
           rest == IF last THEN << >> ELSE JsSliceFrom(rem, space)
           a == [pc |-> "dec", idx |-> idx, placed |-> placed, rest |-> rest,
                 last |-> last, snap |-> Undefined, payload |-> Undefined, t0 |-> 0]
       IN  IF idx < Len(cs)
           THEN [done |-> FALSE, total |-> total,
                 app |-> [a EXCEPT !.snap = ChunkAt(cs, idx)]]
           ELSE [done |-> FALSE, total |-> total + Len(placed),
                 app |-> [a EXCEPT !.pc = "comp", !.payload = CompressLines(placed)]]

(* appendChunkedLines, line 184: the tail chunk is the window's current chunk. *)
FastPath == totalLines \div chunkSize = currentChunkIndex

(* appendChunkedLines, lines 185-187: the part of newLines pushed on buffer. *)
ToCurrent(newLines) == JsSlice(newLines, 0, chunkSize - Len(buffer))

(* appendChunkedLines, lines 177-227, up to its first await. *)
AppendStart(newLines) ==
  LET p == IF FastPath
           THEN LoopPass((totalLines \div chunkSize) + 1, 0,
                         JsSliceFrom(newLines, chunkSize - Len(buffer)), chunks,
                         totalLines + Len(ToCurrent(newLines)))
           ELSE LoopPass(totalLines \div chunkSize, totalLines % chunkSize,
                         newLines, chunks, totalLines)
  IN  /\ buffer' = IF FastPath THEN buffer \o ToCurrent(newLines) ELSE buffer
      /\ totalLines' = p.total
      /\ app' = IF p.done THEN p.app ELSE [p.app EXCEPT !.t0 = totalLines \div chunkSize]
      /\ race' = NoChunk
      /\ ev' = [Event("appendLines", "") EXCEPT !.render = p.done]

(* A variant of appendLines without the activation guard. *)
AppendRejectsNever == FALSE

(* ChunkLoader.appendLines, line 343: the activation guard. *)
AppendRejects == ~enabled

(* ChunkLoader.appendLines, lines 342-347, called with n lines, each led by
   the given number of byte order marks, and the default
   skipRender = false. *)
AppendLines(n, marks) ==
  IF AppendRejects
  THEN /\ ev' = Event("appendLines", "notActivated")
       /\ UNCHANGED << sessionVars, vpSize, reloads, app, doc, clean, resets, race, codecVars >>
  ELSE /\ AppendStart(NewLines(n, marks))
       /\ doc' = doc \o NewLines(n, marks)
       /\ UNCHANGED << enabled, chunks, chunkSize, currentChunkIndex, prevBuffer, nextBuffer,
                       host, vpSize, reloads, clean, resets, codecVars >>

(* appendChunkedLines, lines 200-206 / 214-220: decompressChunk settles, the
   lines are pushed, totalLines advanced and compressChunk called. *)
AppendDecompressed ==
  /\ app.pc = "dec"
  /\ totalLines' = totalLines + Len(app.placed)
  /\ app' = [app EXCEPT !.pc = "comp",
                        !.payload = CompressLines(DecompressLines(app.snap) \o app.placed)]
  /\ race' = NoChunk
  /\ ev' = Event("append", "")
  /\ UNCHANGED << enabled, chunks, chunkSize, buffer, currentChunkIndex, prevBuffer,
                  nextBuffer, host, vpSize, reloads, doc, clean, resets, codecVars >>

(* compressChunk, lines 59-77: the last read settles and the chunk is
   written to the store. compressChunk returns; its caller resumes in a
   later job of the event loop. *)
AppendCompressed ==
  /\ app.pc = "comp"
  /\ chunks' = StoreWrite(chunks, app.idx, app.payload)
  /\ app' = [app EXCEPT !.pc = "stored"]
  /\ race' = NoChunk
  /\ ev' = [Event("append", "") EXCEPT !.at = StoreIndex(chunks, app.idx),
                                       !.grew = Len(chunks') > Len(chunks)]
  /\ UNCHANGED << enabled, chunkSize, totalLines, buffer, currentChunkIndex, prevBuffer,
                  nextBuffer, host, vpSize, reloads, doc, clean, resets, codecVars >>

(* appendChunkedLines, lines 207 / 221-222, after the awaited compressChunk
   has returned, and the next pass of the loop. *)
AppendContinues ==
  /\ app.pc = "stored"
  /\ LET p == IF app.last
              THEN LoopPass(app.idx, 0, << >>, chunks, totalLines)
              ELSE LoopPass(app.idx + 1, 0, app.rest, chunks, totalLines)
     IN  /\ totalLines' = p.total
         /\ app' = IF p.done THEN p.app ELSE [p.app EXCEPT !.t0 = app.t0]
         /\ race' = NoChunk
         /\ ev' = [Event("append", "") EXCEPT !.render = p.done]
  /\ UNCHANGED << enabled, chunks, chunkSize, buffer, currentChunkIndex, prevBuffer,
                  nextBuffer, host, vpSize, reloads, doc, clean, resets, codecVars >>

(* appendChunkedLines, lines 200 / 214: the awaited decompressChunk rejects,
   and the call rejects with it before line 204 / 218 runs. *)
AppendDecompressFails ==
  /\ app.pc = "dec"
  /\ app' = IdleApp
  /\ race' = NoChunk
  /\ ev' = Event("append", "codec")
  /\ UNCHANGED << sessionVars, vpSize, reloads, doc, clean, resets, codecVars >>

(* appendChunkedLines, lines 206 / 220: the awaited compressChunk rejects
   before its store write, and the call rejects with it. *)
AppendCompressFails ==
  /\ app.pc = "comp"
  /\ app' = IdleApp
  /\ race' = NoChunk
  /\ ev' = Event("append", "codec")
  /\ UNCHANGED << sessionVars, vpSize, reloads, doc, clean, resets, codecVars >>

---------------------------------------------------------------------------
(* The specifications of the loader. The callers keep to the contract of
   one append in flight at a time; the bounds cut the behaviours short.
   The sessions of SpecWide take the wider inputs: lines led by byte order
   marks, which the codec does not keep, and a viewer of either kind. The
   sessions of the other specifications append the plain letters in a viewer
   that ends the viewport at start + size - 1; what a call returns in a
   viewer of the other kind is stated of every state by Resolved. *)
SizeViewers == {"size"}


(* The viewer's inputs to the repaint of a reset: whether it repaints
   before render returns, which it can where the repaint reads the loader
   (reads), and its Viewport.start. Where the repaint reads nothing of the
   loader (a rejected activate, a repaint in a later job or one of the
   viewer's own lines), one choice stands for all. *)
RepaintsNow(reads) == IF reads THEN BOOLEAN ELSE {FALSE}
RepaintStarts(now, maxLines) == IF now THEN 0..maxLines ELSE {0}

NextWithin(maxAppend, maxLines, maxReloads, maxResets, maxLead, viewers) ==
  \/ \E size \in 1..(MaxViewport + 1) :
       /\ ~ActivateRejects(size) => resets < maxResets
       /\ \E now \in RepaintsNow(~ActivateRejects(size)) :
            /\ now => Len(reloads) < maxReloads
            /\ \E start \in RepaintStarts(now, maxLines) : Activate(size, now, start)
  \/ resets < maxResets /\ Deactivate
  \/ /\ resets < maxResets
     /\ \E now \in RepaintsNow(host.lines = "chunked") :
          /\ now => Len(reloads) < maxReloads
          /\ \E start \in RepaintStarts(now, maxLines) : Clear(now, start)
  \/ \E start \in 0..maxLines, viewer \in viewers :
       /\ IsMiss(start) => Len(reloads) < maxReloads
       /\ Resolve(start, ViewportEnd(start, viewer))
  \/ \E k \in 1..maxReloads : ReloadCurrent(k)
  \/ \E k \in 1..maxReloads : ReloadPrevious(k)
  \/ \E k \in 1..maxReloads : ReloadNext(k)
  \/ \E n \in 0..maxAppend, marks \in 0..maxLead :
       /\ ~AppendRejects => app.pc = "idle" /\ Len(doc) + n <= maxLines
       /\ AppendLines(n, marks)
  \/ AppendDecompressed
  \/ AppendCompressed
  \/ AppendContinues

(* One session in depth. *)
Next == NextWithin(MaxAppend, MaxLines, MaxReloads, MaxResets, MaxLead, SizeViewers)

Spec == Init /\ [][Next]_vars

(* Several sessions, each short. *)
NextLife ==
  NextWithin(LifeMaxAppend, LifeMaxLines, LifeMaxReloads, LifeMaxResets, MaxLead, SizeViewers)

SpecLife == Init /\ [][NextLife]_vars

(* One short session. *)
NextShort ==
  NextWithin(LifeMaxAppend, ShortMaxLines, LifeMaxReloads, MaxResets, MaxLead, SizeViewers)

(* The continuation of a settled await is run by the event loop: a reload
   whose awaited read settles eventually takes its next step. *)
ReloadFairness ==
  \A k \in 1..LifeMaxReloads :
    /\ WF_vars(ReloadCurrent(k))
    /\ WF_vars(ReloadPrevious(k))
    /\ WF_vars(ReloadNext(k))

SpecLive == Init /\ [][NextShort]_vars /\ ReloadFairness

(* Each codec operation of an append completes: an append suspended at an
   await eventually resumes. *)
AppendFairness ==
  /\ WF_vars(AppendDecompressed)
  /\ WF_vars(AppendCompressed)
  /\ WF_vars(AppendContinues)

SpecAppendLive == Init /\ [][NextShort]_vars /\ AppendFairness

(* One short session in which a codec step of an append may fail. *)
NextFault == NextShort \/ AppendDecompressFails \/ AppendCompressFails

SpecFault == Init /\ [][NextFault]_vars

(* One short session over the wider inputs. *)
NextWide ==
  NextWithin(LifeMaxAppend, ShortMaxLines, LifeMaxReloads, MaxResets, WideMaxLead, ViewerKinds)

SpecWide == Init /\ [][NextWide]_vars

---------------------------------------------------------------------------
(* The codec on its own: compressChunk of a line sequence, then
   decompressChunk of what it stored. *)

(* 'a', e-acute (two bytes in UTF-8), the byte order mark, a lone high
   surrogate, and the newline. *)
CodecAlphabet == { 97, 233, BOM, 55357, NL }

CodecStrings == UNION { [1..k -> CodecAlphabet] : k \in 0..MaxCodecStrLen }

CodecInputs == UNION { [1..k -> CodecStrings] : k \in 0..MaxCodecLines }

InitCodec ==
  /\ LoaderInit
  /\ codecPc = "in"
  /\ codecIn \in CodecInputs
  /\ codecStored = Undefined
  /\ codecOut = << >>

(* compressChunk(0, codecIn) on an empty store, lines 45-78. *)
CodecCompress ==
  /\ codecPc = "in"
  /\ codecStored' = ChunkAt(StoreWrite(<< >>, 0, CompressLines(codecIn)), 0)
  /\ codecPc' = "stored"
  /\ UNCHANGED << sessionVars, vpSize, reloads, app, doc, clean, resets, race, ev,
                  codecIn, codecOut >>

(* decompressChunk(0), lines 84-113. *)
CodecDecompress ==
  /\ codecPc = "stored"
  /\ DecompressOk(codecStored)
  /\ codecOut' = DecompressLines(codecStored)
  /\ codecPc' = "out"
  /\ UNCHANGED << sessionVars, vpSize, reloads, app, doc, clean, resets, race, ev,
                  codecIn, codecStored >>

NextCodec == CodecCompress \/ CodecDecompress

SpecCodec == InitCodec /\ [][NextCodec]_vars

---------------------------------------------------------------------------
(* Properties. *)

Ceil(a, b) == (a + b - 1) \div b

Quiet == app.pc = "idle"

(* The lines of the stored chunk i as decompressChunk returns them, and no
   lines for an index outside the store. *)
StoredLines(i) ==
  IF i >= 0 /\ i < Len(chunks) THEN DecompressLines(ChunkAt(chunks, i)) ELSE << >>

(* The appended document lines with indices [from, to). *)
DocLines(from, to) == SubSeq(doc, from + 1, to)

NoNewline(lines) ==
  \A i \in 1..Len(lines) : \A j \in 1..Len(lines[i]) : lines[i][j] # NL

(* C1: within one session, with one append in flight at a time and resolve
   calls interleaved, totalLines never decreases, and whenever the appends
   issued so far have completed it equals the sum of their input lengths. *)
C1_TotalLinesIsSum ==
  /\ [](clean /\ Quiet => totalLines = Len(doc))
  /\ [][resets' = resets => totalLines' >= totalLines]_vars

(* More lines than one call can carry were appended, the last call completed
   after an await, and a resolve has moved the window. *)
C1_Witness ==
  /\ clean /\ Quiet
  /\ ev.op = "append"
  /\ totalLines > MaxAppend
  /\ totalLines = Len(doc)
  /\ currentChunkIndex # NoChunk

(* C2: whenever no append is in flight, chunkCount = ceil(totalLines / chunkSize). *)
C2_ChunkCount == Quiet => Len(chunks) = Ceil(totalLines, chunkSize)

(* C3: whenever no append is in flight, every stored chunk i decompresses to
   the appended lines [i*chunkSize, min((i+1)*chunkSize, totalLines)), and
   every appended line is in the stored chunk that owns its index. *)
C3_ChunksHoldDocument ==
  Quiet =>
    /\ \A i \in 0..(Len(chunks) - 1) :
         StoredLines(i) = DocLines(i * chunkSize, Min((i + 1) * chunkSize, totalLines))
    /\ \A j \in 0..(Len(doc) - 1) :
         /\ j \div chunkSize < Len(chunks)
         /\ LineOr(StoredLines(j \div chunkSize), j % chunkSize) = doc[j + 1]

(* C4: after a miss for chunk B issued while the reload of another chunk A
   was in flight, once both reloads have finished the three buffers hold
   chunks B, B-1 and B+1 (empty where there is no such chunk). *)
C4_LatestTargetWins ==
  (race # NoChunk /\ race < Len(chunks) /\ reloads = << >>) =>
    /\ currentChunkIndex = race
    /\ buffer = StoredLines(race)
    /\ prevBuffer = StoredLines(race - 1)
    /\ nextBuffer = StoredLines(race + 1)

(* C5: each of the three resident buffers holds at most chunkSize lines. *)
C5_BoundedWindow ==
  /\ Len(buffer) <= chunkSize
  /\ Len(prevBuffer) <= chunkSize
  /\ Len(nextBuffer) <= chunkSize

(* C6: resolving a viewport that reaches beyond the last line never fails,
   not in the reload it triggers either, which neither rejects nor stays
   pending for ever, and once no reload is in flight a resolve returns the
   empty string for every position >= totalLines. *)
C6_OutOfRangeIsEmpty ==
  /\ ev.err # "TypeError"
  /\ \A k \in 1..Len(reloads) : reloads[k].settles
  /\ (host.lines = "chunked" /\ reloads = << >>) =>
       \A start \in 0..MaxLines :
         \A end \in ViewportEnds(start) :
           ~IsMiss(start) =>
             \A k \in 1..Len(HitLines(start, end)) :
               start + k - 1 >= totalLines => HitLines(start, end)[k] = EmptyString

(* C7: activate(size) with Viewport.size >= size raises the configuration
   error and changes nothing of the session or of the hosting viewer. (A
   rejected call does not reach its repaint.) *)
C7_ActivateGuard ==
  [][ /\ \A size \in 1..(MaxViewport + 1) :
           (vpSize >= size /\ Activate(size, FALSE, 0)) => ev'.err = "config"
      /\ (ev'.op = "activate" /\ ev'.err = "config") =>
           UNCHANGED << sessionVars, vpSize, reloads, app >> ]_vars

(* A rejected activate on a session that holds lines, chunks and a loaded
   current buffer. *)
C7_Witness ==
  /\ ev.op = "activate" /\ ev.err = "config"
  /\ enabled
  /\ totalLines > 0 /\ chunks # << >> /\ buffer # << >>

(* C8: appendLines outside an active session raises "not activated" and
   stores nothing: totalLines, chunks and the buffers are unchanged. *)
C8_AppendNeedsSession ==
  [][ /\ \A n \in 0..LifeMaxAppend, marks \in 0..WideMaxLead :
           (~enabled /\ AppendLines(n, marks)) => ev'.err = "notActivated"
      /\ (ev'.op = "appendLines" /\ ev'.err = "notActivated") =>
           /\ ~enabled
           /\ UNCHANGED << sessionVars, app, reloads, doc >> ]_vars

(* A rejected appendLines after a session was activated and deactivated. *)
C8_Witness ==
  /\ ev.op = "appendLines" /\ ev.err = "notActivated"
  /\ ~enabled
  /\ host.modelLines = "empty"
  /\ resets >= 2

(* C9: every resolve returns exactly Viewport.size strings: placeholders on
   a miss, one string per viewport line on a hit, also where the viewport
   reaches beyond the last line of the document. *)
C9_ResolveLength ==
  /\ ev.op = "resolve" => ev.n = vpSize
  /\ host.lines = "chunked" =>
       \A start \in 0..MaxLines :
         IsMiss(start) =>
           \A end \in ViewportEnds(start) :
             /\ Len(Resolved(start, end)) = vpSize
             /\ \A k \in 1..vpSize : Resolved(start, end)[k] = Placeholder

(* C9, amended: a resolve returns exactly Viewport.size placeholders on a
   miss; on a hit it returns one string for every line index from
   Viewport.start to the viewer's Viewport.end, which are Viewport.size
   strings where Viewport.end is Viewport.start + Viewport.size - 1 and
   fewer where the viewer ends the viewport before that. *)
C9_ResolveLengthToEnd ==
  /\ ev.op = "resolve" =>
       /\ ~ev.hit => ev.n = vpSize
       /\ (ev.hit /\ ~ev.short) => ev.n = vpSize
       /\ (ev.hit /\ ev.short) => ev.n < vpSize
  /\ host.lines = "chunked" =>
       \A start \in 0..MaxLines :
         \A end \in ViewportEnds(start) :
           /\ IsMiss(start) =>
                /\ Len(Resolved(start, end)) = vpSize
                /\ \A k \in 1..vpSize : Resolved(start, end)[k] = Placeholder
           /\ ~IsMiss(start) =>
                /\ Len(Resolved(start, end)) = Max(end - start + 1, 0)
                /\ end = start + vpSize - 1 => Len(Resolved(start, end)) = vpSize

(* A cache hit was served for a viewport that starts inside the document
   and reaches beyond its last line, in a viewer that ends the viewport at
   the last line: the call returned at least one string and fewer than
   Viewport.size. *)
C9_Witness ==
  /\ ev.op = "resolve" /\ ev.hit /\ ev.short
  /\ ev.n >= 1 /\ ev.n < vpSize
  /\ totalLines > 0
  /\ buffer # << >>

(* C10: decompress(compress(L)) = L for every sequence L of newline-free
   strings, the empty sequence included. *)
C10_RoundTrip ==
  (codecPc = "out" /\ NoNewline(codecIn)) => codecOut = codecIn

(* C11: right after deactivate() or clear() returns, from any state, the
   session is discarded: no chunks, totalLines = 0, compressedSize = 0 (the
   one value the getter can return), the three buffers empty and no chunk
   loaded; neither operation fails. *)
C11_ResetDiscards ==
  ev.op \in {"deactivate", "clear"} =>
    /\ ev.err = ""
    /\ Len(chunks) = 0
    /\ totalLines = 0
    /\ \A n \in 0..(Len(chunks) * MinGzipLength) : IsCompressedSize(chunks, n) <=> n = 0
    /\ buffer = << >> /\ prevBuffer = << >> /\ nextBuffer = << >>
    /\ currentChunkIndex = NoChunk

(* The mode of the hosting viewer: editMode and the three overridden members. *)
HostMode(h) == << h.editMode, h.lastIndex, h.lines, h.appendLines >>

(* C12: the viewer is in navigate mode with the chunked line source, line
   count and append installed exactly when the session is enabled, and in
   write mode with the original ones otherwise; only a successful activate
   or deactivate changes the mode. *)
C12_HostMode ==
  /\ [](HostMode(host) = IF enabled
                         THEN << "navigate", "chunked", "chunked", "chunked" >>
                         ELSE << "write", "original", "original", "original" >>)
  /\ [][(HostMode(host') # HostMode(host) \/ enabled' # enabled) =>
          (ev'.op \in {"activate", "deactivate"} /\ ev'.err = "")]_vars

(* A session was activated and deactivated: the viewer is back in write
   mode with its original members. *)
C12_Witness ==
  /\ ev.op = "deactivate"
  /\ ~enabled
  /\ host.modelLines = "empty"
  /\ HostMode(host) = << "write", "original", "original", "original" >>

(* The number of lines the stored chunks 0..(n - 1) hold. *)
RECURSIVE StoredLineCount(_)
StoredLineCount(n) ==
  IF n = 0 THEN 0 ELSE Len(StoredLines(n - 1)) + StoredLineCount(n - 1)

(* C13: after an append call that failed in a compress or decompress step,
   totalLines equals the number of lines the stored chunks hold. The window
   was never moved in the session, so every appended line went through the
   chunk loop. *)
C13_FailedAppendIsAtomic ==
  (ev.op = "append" /\ ev.err = "codec" /\ currentChunkIndex = NoChunk) =>
    totalLines = StoredLineCount(Len(chunks))

(* C14: every cache miss is eventually followed by the repaint of a
   completed reload, whatever chunk index was requested. *)
C14_MissRepaints ==
  (ev.op = "resolve" /\ ~ev.hit) ~> (ev.op = "reload" /\ ev.render)

(* C15: with chunks 0 and 1 stored and the window loaded on chunk 0,
   resolving a viewport that spans line chunkSize - 1 and line chunkSize
   moves currentChunkIndex from 0 to 1. *)
C15_BoundaryTransition ==
  [][\A start \in 0..MaxLines :
       (/\ currentChunkIndex = 0
        /\ Len(chunks) >= 2 /\ reloads = << >> /\ buffer = StoredLines(0)
        /\ start <= chunkSize - 1
        /\ \E end \in ViewportEnds(start) : end >= chunkSize /\ Resolve(start, end))
         => currentChunkIndex' = 1]_vars

(* The lines of buf are appended lines of chunk c, in their positions. *)
HoldsLinesOf(buf, c) ==
  \A k \in 1..Len(buf) :
    /\ c >= 0
    /\ c * chunkSize + k <= Len(doc)
    /\ buf[k] = doc[c * chunkSize + k]

(* C16: in every state a non-empty current buffer holds lines of chunk
   currentChunkIndex, a non-empty previous buffer lines of chunk
   currentChunkIndex - 1 and a non-empty next buffer lines of chunk
   currentChunkIndex + 1. *)
C16_BuffersMatchIndex ==
  /\ buffer # << >> => HoldsLinesOf(buffer, currentChunkIndex)
  /\ prevBuffer # << >> => HoldsLinesOf(prevBuffer, currentChunkIndex - 1)
  /\ nextBuffer # << >> => HoldsLinesOf(nextBuffer, currentChunkIndex + 1)

(* C17: a cache-hit resolve schedules no reload and changes neither
   currentChunkIndex, the three buffers, the stored chunks nor totalLines. *)
C17_HitChangesNothing ==
  [][ /\ (ev'.op = "resolve" /\ ~UNCHANGED << currentChunkIndex, buffer, prevBuffer,
                                                nextBuffer, chunks, totalLines, reloads,
                                                app >>) =>
           \A start \in 0..MaxLines :
             start \div chunkSize = currentChunkIndex =>
               \A end \in ViewportEnds(start) : ~Resolve(start, end)
      /\ (ev'.op = "resolve" /\ ev'.hit) =>
           UNCHANGED << currentChunkIndex, buffer, prevBuffer, nextBuffer, chunks,
                        totalLines, reloads, app >> ]_vars

(* A hit was served from a window whose current and next buffers are loaded. *)
C17_Witness ==
  /\ ev.op = "resolve" /\ ev.hit
  /\ reloads = << >>
  /\ buffer # << >> /\ nextBuffer # << >>
  /\ totalLines > chunkSize

(* currentChunkIndex as the resolve of a step finds it: as the step finds
   it, or, where the step is a reset whose repaint resolves, as the reset
   has assigned it. *)
IndexAtResolve == IF resets' = resets THEN currentChunkIndex ELSE NoChunk

(* C18: a miss sets currentChunkIndex to the requested chunk before resolve
   returns; a reload is started only by a resolve that changes
   currentChunkIndex, one reload for the new index, so a further resolve for
   the same target while the reload is pending starts none. *)
C18_OneReloadPerChange ==
  [][ /\ ev'.op = "resolve" =>
           \A start \in 0..MaxLines :
             currentChunkIndex' # start \div chunkSize =>
               \A end \in ViewportEnds(start) : ~Resolve(start, end)
      /\ Len(reloads') > Len(reloads) =>
           /\ Len(reloads') = Len(reloads) + 1
           /\ currentChunkIndex' # IndexAtResolve
           /\ reloads'[Len(reloads')].target = currentChunkIndex'
      /\ currentChunkIndex' # IndexAtResolve =>
           Len(reloads') = Len(reloads) + 1 ]_vars

(* A resolve for the chunk whose reload is still at its first await was
   served as a hit. *)
C18_Witness ==
  /\ ev.op = "resolve" /\ ev.hit
  /\ Len(reloads) = 1
  /\ reloads[1].pc = "cur"
  /\ reloads[1].target = currentChunkIndex

(* How a reload for target r goes on once its previous buffer is settled:
   it reads chunk r + 1 and suspends, the next buffer untouched, or it
   empties the next buffer, repaints and ends. *)
GoesOnToNext(k, r) ==
  IF r + 1 < Len(chunks)
  THEN /\ nextBuffer' = nextBuffer
       /\ ~ev'.render
       /\ reloads'[k].pc = "next"
       /\ reloads'[k].snap = ChunkAt(chunks, r + 1)
  ELSE /\ nextBuffer' = << >>
       /\ ev'.render
       /\ Len(reloads') = Len(reloads) - 1

(* C19: a reload for target r assigns the current buffer the content of
   chunk r first, then the previous buffer (chunk r-1, or empty when there
   is none), then the next buffer (chunk r+1, or empty when there is none),
   and repaints only after all three are assigned. *)
C19_ReloadOrder ==
  [][ /\ Len(reloads') > Len(reloads) =>
           /\ reloads'[Len(reloads')].pc = "cur"
           /\ reloads'[Len(reloads')].snap = ChunkAt(chunks', currentChunkIndex')
           /\ IF resets' = resets
              THEN UNCHANGED << buffer, prevBuffer, nextBuffer >>
              ELSE buffer' = << >> /\ prevBuffer' = << >> /\ nextBuffer' = << >>
      /\ ev'.op = "reload" =>
           \A k \in 1..Len(reloads) :
             LET r == reloads[k].target
                 content == DecompressLines(reloads[k].snap)
             IN  /\ (ReloadCurrent(k) /\ ev'.err = "") =>
                      /\ buffer' = content
                      /\ IF r - 1 >= 0 /\ r - 1 < Len(chunks)
                         THEN /\ UNCHANGED << prevBuffer, nextBuffer >>
                              /\ ~ev'.render
                              /\ reloads'[k].pc = "prev"
                              /\ reloads'[k].snap = ChunkAt(chunks, r - 1)
                         ELSE prevBuffer' = << >> /\ GoesOnToNext(k, r)
                 /\ ReloadPrevious(k) =>
                      /\ prevBuffer' = content
                      /\ buffer' = buffer
                      /\ GoesOnToNext(k, r)
                 /\ ReloadNext(k) =>
                      /\ nextBuffer' = content
                      /\ UNCHANGED << buffer, prevBuffer >>
                      /\ ev'.render
                      /\ Len(reloads') = Len(reloads) - 1
      /\ (ev'.op = "reload" /\ ev'.render) => Len(reloads') = Len(reloads) - 1 ]_vars

(* A reload for chunk 1 of three stored chunks has ended with a repaint and
   all three buffers loaded. *)
C19_Witness ==
  /\ ev.op = "reload" /\ ev.render
  /\ reloads = << >>
  /\ Len(chunks) = 3 /\ currentChunkIndex = 1
  /\ buffer = StoredLines(1) /\ prevBuffer = StoredLines(0) /\ nextBuffer = StoredLines(2)

IsPrefix(a, b) == Len(a) <= Len(b) /\ SubSeq(b, 1, Len(a)) = a

(* C20: an append never removes or alters stored lines. With T the chunk
   index floor(totalLines / chunkSize) at the start of the call, a store
   write (a change of the store by a step that is no reset) is at an index
   >= T and leaves every other stored chunk, so every chunk below T, byte
   for byte unchanged; at an existing index it replaces the chunk by its old
   lines followed by the new lines, the old lines a prefix of the new;
   beyond the last index it grows the store by exactly one chunk. *)
C20_AppendOnlyStore ==
  [][ (chunks' # chunks /\ resets' = resets) =>
        /\ app.pc = "comp"
        /\ app.idx >= app.t0
        /\ \A j \in 0..(Len(chunks) - 1) :
             (j # app.idx \/ j < app.t0) => ChunkAt(chunks', j) = ChunkAt(chunks, j)
        /\ IF app.idx < Len(chunks)
           THEN /\ Len(chunks') = Len(chunks)
                /\ IsPrefix(StoredLines(app.idx), DecompressLines(ChunkAt(chunks', app.idx)))
                /\ DecompressLines(ChunkAt(chunks', app.idx)) =
                     StoredLines(app.idx) \o app.placed
           ELSE Len(chunks') = Len(chunks) + 1 ]_vars

(* What the document holds at absolute line index i: the appended line, or
   the empty string beyond the last line. *)
DocLineOr(i) == IF i >= 0 /\ i < Len(doc) THEN doc[i + 1] ELSE EmptyString

(* C21: with no reload and no append in flight, a cache-hit resolve returns
   the appended line i for every viewport index i < totalLines and the
   empty string for every i >= totalLines. *)
C21_QuiescentHitIsExact ==
  (Quiet /\ reloads = << >> /\ clean /\ host.lines = "chunked") =>
    \A start \in 0..MaxLines :
      \A end \in ViewportEnds(start) :
        ~IsMiss(start) =>
          \A k \in 1..Len(HitLines(start, end)) :
            HitLines(start, end)[k] =
              IF start + k - 1 < totalLines THEN DocLineOr(start + k - 1) ELSE EmptyString

(* C22: in every state, each string resolve returns for absolute line index
   i is the loading placeholder, the empty string or the appended line i. *)
C22_NeverAnotherLine ==
  (clean /\ host.lines = "chunked") =>
    \A start \in 0..MaxLines :
      \A end \in ViewportEnds(start) :
        \A k \in 1..Len(Resolved(start, end)) :
          Resolved(start, end)[k] \in {Placeholder, EmptyString, DocLineOr(start + k - 1)}

(* C23: after a reset (activate, deactivate, clear) the state stays empty
   until an append issued after the reset: no chunk, totalLines = 0 and the
   three buffers empty, whatever reload or append was in flight. *)
C23_NoLeakAcrossReset ==
  (resets >= 1 /\ doc = << >>) =>
    /\ Len(chunks) = 0
    /\ totalLines = 0
    /\ buffer = << >> /\ prevBuffer = << >> /\ nextBuffer = << >>

(* The lines of the append in flight that are not stored yet. *)
Remaining == (IF app.pc = "stored" THEN 0 ELSE Len(app.placed)) + Len(app.rest)

(* C24: every append call on an active session terminates when each codec
   operation completes: every pass of the chunk loop places at least one and
   at most chunkSize lines, every store write leaves fewer lines to place,
   and the call in flight eventually ends. *)
C24_AppendTerminates ==
  /\ []((clean /\ app.pc # "idle") =>
          (Len(app.placed) >= 1 /\ Len(app.placed) <= chunkSize))
  /\ [][app.pc = "comp" /\ app' # app => Remaining' < Remaining]_vars
  /\ (app.pc # "idle") ~> (app.pc = "idle")

(* An append has just written the chunk of one pass of its loop and has
   lines left for the next. *)
C24_Witness ==
  /\ enabled /\ clean
  /\ app.pc = "stored"
  /\ ev.op = "append" /\ ev.at = app.idx
  /\ Remaining >= 1

=============================================================================
